---- MODULE Spec2Model ----
(***************************************************************************)
(* reconstruct_firmware of debug_reconstruction.py as a state machine.     *)
(* The two byte buffers are sequences of 0..255 (TLA+ index = Python       *)
(* index + 1).  One action per block of the function; an exception raised  *)
(* by a byte read ends the run in pc = "IndexError", the use of the        *)
(* unassigned local imageData_end in pc = "UnboundLocalError".             *)
(***************************************************************************)
EXTENDS Integers, Sequences, FiniteSets

VARIABLES
    image,                  \* how the modified file was produced (input record)
    original,               \* bytes of original_file            (line 10)
    modified,               \* bytes of modified_file            (line 13)
    pc,                     \* position in reconstruct_firmware
    imageData_end,          \* <<>> while unassigned, <<v>> once assigned
    dataBeforeChecksum_end, \* <<>> while unassigned, <<v>> once assigned
    rebuilt_length,         \* value printed at line 37
    final_length,           \* value printed at line 45
    checksum,
    segment_count,          \* <<>> until line 68 has read it
    offset,
    total_data_bytes,
    i,
    j,
    seg_load_addr,
    seg_data_len,
    segments,               \* history: descriptors decoded by lines 77-78
    reads,                  \* history: single-byte reads that returned a byte
    folded,                 \* history: indexes of the bytes line 85 folded
    expected_checksum,      \* <<>> until line 91 has printed it
    found                   \* positions printed by line 99

vars == <<image, original, modified, pc, imageData_end, dataBeforeChecksum_end,
          rebuilt_length, final_length, checksum, segment_count, offset,
          total_data_bytes, i, j, seg_load_addr, seg_data_len, segments,
          reads, folded, expected_checksum, found>>

----------------------------------------------------------------------------
(* Bounds of the model *)
MaxSegments == 2
MaxDataLen == 2
MaxPad == 1

(* Constants of the program *)
MAGIC == 233
CHECKSUM_SEED == 239
HEADER_SIZE == 24
SEG_HEADER_SIZE == 8
SHA256_SIZE == 32
MIN_ORIGINAL == 33
CHECKSUM_BACK == 33
NEAR_END == 40

None == <<>>
Some(v) == <<v>>

----------------------------------------------------------------------------
(* Python's byte-string primitives *)

\* a ^ b on non-negative integers
RECURSIVE Xor(_, _)
Xor(a, b) ==
    IF a = 0 THEN b
    ELSE IF b = 0 THEN a
    ELSE (((a % 2) + (b % 2)) % 2) + 2 * Xor(a \div 2, b \div 2)

\* buf[idx] returns a byte (no IndexError): idx in -len .. len-1
Valid(buf, idx) == idx >= 0 - Len(buf) /\ idx < Len(buf)

\* buf[idx]: a negative idx counts from the end
GetItem(buf, idx) == IF idx < 0 THEN buf[Len(buf) + idx + 1] ELSE buf[idx + 1]

Min(a, b) == IF a < b THEN a ELSE b

\* buf[lo:hi] with 0 <= lo <= hi: clipped to the buffer, never raises
Slice(buf, lo, hi) == SubSeq(buf, lo + 1, Min(hi, Len(buf)))

\* int.from_bytes(s, 'little'); the empty byte string gives 0
RECURSIVE FromBytesLittle(_)
FromBytesLittle(s) ==
    IF s = <<>> THEN 0 ELSE Head(s) + 256 * FromBytesLittle(Tail(s))

----------------------------------------------------------------------------
(* The expressions of reconstruct_firmware *)

\* line 21: imageData_end = len(original) - 32
ImageDataEnd(buf) == Len(buf) - SHA256_SIZE

\* mutant of line 30: the checksum byte is not dropped
DataBeforeChecksumEnd_Keep(ide) == ide

\* line 30: dataBeforeChecksum_end = imageData_end - 1
DataBeforeChecksumEnd(ide) == ide - 1

\* line 37: dataBeforeChecksum_end + 1
RebuiltLength(d) == d + 1

\* line 45: dataBeforeChecksum_end + 1 + 32
FinalLength(d) == d + 1 + SHA256_SIZE

\* lines 47-48, 55: len(modified) - 33
ByteMinus33(buf) == Len(buf) - CHECKSUM_BACK

\* line 56: len(modified) - 1
LastByte(buf) == Len(buf) - 1

\* line 77: int.from_bytes(modified[offset:offset+4], 'little')
SegLoadAddr(buf, off) == FromBytesLittle(Slice(buf, off, off + 4))

\* int.from_bytes(s, 'big')
RECURSIVE FromBytesBig(_)
FromBytesBig(s) ==
    IF s = <<>> THEN 0 ELSE s[Len(s)] + 256 * FromBytesBig(SubSeq(s, 1, Len(s) - 1))

\* mutant of line 78: the length is decoded big-endian
SegDataLen_BigEndian(buf, off) == FromBytesBig(Slice(buf, off + 4, off + 8))

\* line 78: int.from_bytes(modified[offset+4:offset+8], 'little')
SegDataLen(buf, off) == FromBytesLittle(Slice(buf, off + 4, off + 8))

\* line 81: offset += 8
SkipSegmentHeader(off) == off + SEG_HEADER_SIZE

\* mutant of line 85: an additive checksum, checksum = (checksum + byte) & 0xFF
FoldByte_Add(cs, b) == (cs + b) % 256

\* line 85: checksum ^= modified[offset + j]
FoldByte(cs, b) == Xor(cs, b)

\* mutant of line 87: the cursor is not moved past the payload
SkipSegmentData_Stay(off, len) == off

\* line 87: offset += seg_data_len
SkipSegmentData(off, len) == off + len

\* line 88: total_data_bytes += seg_data_len
AddDataBytes(total, len) == total + len

\* lines 84-85 as a whole: the checksum after the inner loop from index jj
\* on, or None when a read raises IndexError
RECURSIVE FoldData(_, _, _, _, _)
FoldData(buf, off, len, jj, cs) ==
    IF jj >= len THEN Some(cs)
    ELSE IF ~Valid(buf, off + jj) THEN None
    ELSE FoldData(buf, off, len, jj + 1, FoldByte(cs, GetItem(buf, off + jj)))

\* lines 75-88 as a whole: the checksum after iterations ii .. count-1
RECURSIVE WalkFrom(_, _, _, _, _)
WalkFrom(buf, count, ii, off, cs) ==
    IF ii >= count THEN Some(cs)
    ELSE LET len  == SegDataLen(buf, off)
             data == SkipSegmentHeader(off)
             cs2  == FoldData(buf, data, len, 0, cs)
         IN  IF cs2 = None THEN None
             ELSE WalkFrom(buf, count, ii + 1, SkipSegmentData(data, len), cs2[1])

\* lines 61-91 as a function of the buffer: Some(checksum) when line 91
\* prints it, None when the run returns at line 66 or raises
WalkChecksum(buf) ==
    IF ~Valid(buf, 0) THEN None
    ELSE IF GetItem(buf, 0) # MAGIC THEN None
    ELSE IF ~Valid(buf, 1) THEN None
    ELSE WalkFrom(buf, GetItem(buf, 1), 0, HEADER_SIZE, CHECKSUM_SEED)

----------------------------------------------------------------------------
(* The input files *)

FirstBytes == {1, 255}
LoadAddrs == {1074266370}      \* 0x40080102
Magics == {MAGIC, 0}

\* n payload bytes b, b+1, ... (mod 256)
Ramp(b, n) == [y \in 1..n |-> (b + y - 1) % 256]

Payloads == {Ramp(b, n) : b \in FirstBytes, n \in 0..MaxDataLen}
Segment == [load_addr : LoadAddrs, data : Payloads]
SegLists == UNION {[1..n -> Segment] : n \in 0..MaxSegments}

\* n bytes of v
Fill(n, v) == [x \in 1..n |-> v]

\* the 4-byte little-endian encoding of n
ToBytesLittle(n) ==
    <<n % 256, (n \div 256) % 256, (n \div 65536) % 256, (n \div 16777216) % 256>>

RECURSIVE SegmentRecords(_)
SegmentRecords(segs) ==
    IF segs = <<>> THEN <<>>
    ELSE ToBytesLittle(Head(segs).load_addr) \o ToBytesLittle(Len(Head(segs).data))
         \o Head(segs).data \o SegmentRecords(Tail(segs))

RECURSIVE PayloadXor(_, _)
PayloadXor(s, acc) == IF s = <<>> THEN acc ELSE PayloadXor(Tail(s), Xor(acc, Head(s)))

RECURSIVE AllPayload(_)
AllPayload(segs) == IF segs = <<>> THEN <<>> ELSE Head(segs).data \o AllPayload(Tail(segs))

\* magic, segment_count, 6 + 16 opaque bytes, the segment records, padding,
\* the checksum byte, 32 trailer bytes
BuildImage(magic, segs, pad) ==
    <<magic, Len(segs)>> \o Ramp(170, 6) \o Ramp(85, 16) \o SegmentRecords(segs)
    \o Fill(pad, 0) \o <<PayloadXor(AllPayload(segs), 239)>> \o Fill(32, 90)

\* every payload of the segment list is the ramp from 1
Plain(segs) == \A x \in 1..Len(segs) : segs[x].data = Ramp(1, Len(segs[x].data))

\* lengths of the original file tried against a modified file of m bytes
OrigLens(m) == {32, 33, m, m + 1}

----------------------------------------------------------------------------
(* State after the two files have been read (lines 9-17) *)

Init ==
    /\ \E magic \in Magics, segs \in SegLists, pad \in {0, MaxPad} :
         LET full == BuildImage(magic, segs, pad) IN
         \E k \in 0..Len(full) :
           /\ k = Len(full) \/ (magic = MAGIC /\ Plain(segs))
           /\ \E n \in OrigLens(k) :
                /\ image = [magic |-> magic, segs |-> segs, pad |-> pad]
                /\ modified = SubSeq(full, 1, k)
                /\ original = Fill(n, 0)
    /\ pc = "image_data"
    /\ imageData_end = None
    /\ dataBeforeChecksum_end = None
    /\ rebuilt_length = None
    /\ final_length = None
    /\ checksum = 0
    /\ segment_count = None
    /\ offset = 0
    /\ total_data_bytes = 0
    /\ i = 0
    /\ j = 0
    /\ seg_load_addr = 0
    /\ seg_data_len = 0
    /\ segments = <<>>
    /\ reads = {}
    /\ folded = <<>>
    /\ expected_checksum = None
    /\ found = {}

\* the reads of `idxs`, in order, that return a byte before the first that raises
Returned(buf, name, idxs) ==
    {<<name, idxs[x]>> : x \in {y \in 1..Len(idxs) : \A z \in 1..y : Valid(buf, idxs[z])}}

AllValid(buf, idxs) == \A x \in 1..Len(idxs) : Valid(buf, idxs[x])

walkVars == <<checksum, segment_count, offset, total_data_bytes, i, j,
              seg_load_addr, seg_data_len, segments, folded, expected_checksum, found>>

\* lines 19-26
CheckImageData ==
    /\ pc = "image_data"
    /\ IF Len(original) >= MIN_ORIGINAL
       THEN LET ide == ImageDataEnd(original) IN
            /\ imageData_end' = Some(ide)
            /\ reads' = reads \cup Returned(original, "original", <<ide - 1>>)
                              \cup Returned(modified, "modified", <<ide - 1>>)
            /\ pc' = IF Valid(modified, ide - 1) THEN "data_before_checksum" ELSE "IndexError"
       ELSE /\ pc' = "data_before_checksum"
            /\ UNCHANGED <<imageData_end, reads>>
    /\ UNCHANGED <<image, original, modified, dataBeforeChecksum_end, rebuilt_length,
                   final_length>>
    /\ UNCHANGED walkVars

\* lines 28-32
DeriveDataBeforeChecksum ==
    /\ pc = "data_before_checksum"
    /\ IF imageData_end = None
       THEN /\ pc' = "UnboundLocalError"
            /\ UNCHANGED dataBeforeChecksum_end
       ELSE /\ dataBeforeChecksum_end' = Some(DataBeforeChecksumEnd(imageData_end[1]))
            /\ pc' = "add_checksum"
    /\ UNCHANGED <<image, original, modified, imageData_end, rebuilt_length,
                   final_length, reads>>
    /\ UNCHANGED walkVars

\* lines 34-40
AddChecksumByte ==
    /\ pc = "add_checksum"
    /\ rebuilt_length' = Some(RebuiltLength(dataBeforeChecksum_end[1]))
    /\ reads' = reads \cup Returned(modified, "modified", <<dataBeforeChecksum_end[1]>>)
    /\ pc' = IF Valid(modified, dataBeforeChecksum_end[1]) THEN "append_sha" ELSE "IndexError"
    /\ UNCHANGED <<image, original, modified, imageData_end, dataBeforeChecksum_end,
                   final_length>>
    /\ UNCHANGED walkVars

\* lines 42-49
AppendSha256 ==
    /\ pc = "append_sha"
    /\ final_length' = Some(FinalLength(dataBeforeChecksum_end[1]))
    /\ reads' = reads \cup Returned(modified, "modified", <<ByteMinus33(modified)>>)
    /\ pc' = IF Valid(modified, ByteMinus33(modified)) THEN "positions" ELSE "IndexError"
    /\ UNCHANGED <<image, original, modified, imageData_end, dataBeforeChecksum_end,
                   rebuilt_length>>
    /\ UNCHANGED walkVars

\* lines 51-57
ReportPositions ==
    /\ pc = "positions"
    /\ LET idxs == <<dataBeforeChecksum_end[1], ByteMinus33(modified), LastByte(modified)>> IN
       /\ reads' = reads \cup Returned(modified, "modified", idxs)
       /\ pc' = IF AllValid(modified, idxs) THEN "magic" ELSE "IndexError"
    /\ UNCHANGED <<image, original, modified, imageData_end, dataBeforeChecksum_end,
                   rebuilt_length, final_length>>
    /\ UNCHANGED walkVars

posVars == <<image, original, modified, imageData_end, dataBeforeChecksum_end,
             rebuilt_length, final_length>>

\* lines 59-66
CheckMagic ==
    /\ pc = "magic"
    /\ checksum' = CHECKSUM_SEED
    /\ reads' = reads \cup Returned(modified, "modified", <<0>>)
    /\ pc' = IF ~Valid(modified, 0) THEN "IndexError"
             ELSE IF GetItem(modified, 0) # MAGIC THEN "bad_magic"
             ELSE "segment_count"
    /\ UNCHANGED posVars
    /\ UNCHANGED <<segment_count, offset, total_data_bytes, i, j, seg_load_addr,
                   seg_data_len, segments, folded, expected_checksum, found>>

\* lines 68-73
ReadSegmentCount ==
    /\ pc = "segment_count"
    /\ reads' = reads \cup Returned(modified, "modified", <<1>>)
    /\ IF Valid(modified, 1)
       THEN /\ segment_count' = Some(GetItem(modified, 1))
            /\ offset' = HEADER_SIZE
            /\ total_data_bytes' = 0
            /\ i' = 0
            /\ pc' = "loop"
       ELSE /\ pc' = "IndexError"
            /\ UNCHANGED <<segment_count, offset, total_data_bytes, i>>
    /\ UNCHANGED posVars
    /\ UNCHANGED <<checksum, j, seg_load_addr, seg_data_len, segments, folded,
                   expected_checksum, found>>

\* lines 75-81: the next iteration of the segment loop, up to the inner loop
ReadSegmentHeader ==
    /\ pc = "loop"
    /\ i < segment_count[1]
    /\ seg_load_addr' = SegLoadAddr(modified, offset)
    /\ seg_data_len' = SegDataLen(modified, offset)
    /\ segments' = Append(segments, [at |-> offset,
                                     load_addr |-> seg_load_addr',
                                     data_len |-> seg_data_len'])
    /\ offset' = SkipSegmentHeader(offset)
    /\ j' = 0
    /\ pc' = "xor"
    /\ UNCHANGED posVars
    /\ UNCHANGED <<checksum, segment_count, total_data_bytes, i, reads, folded,
                   expected_checksum, found>>

\* lines 84-85: one iteration of the inner loop
XorDataByte ==
    /\ pc = "xor"
    /\ j < seg_data_len
    /\ reads' = reads \cup Returned(modified, "modified", <<offset + j>>)
    /\ IF Valid(modified, offset + j)
       THEN /\ checksum' = FoldByte(checksum, GetItem(modified, offset + j))
            /\ folded' = Append(folded, offset + j)
            /\ j' = j + 1
            /\ pc' = "xor"
       ELSE /\ pc' = "IndexError"
            /\ UNCHANGED <<checksum, folded, j>>
    /\ UNCHANGED posVars
    /\ UNCHANGED <<segment_count, offset, total_data_bytes, i, seg_load_addr,
                   seg_data_len, segments, expected_checksum, found>>

\* lines 87-88: the end of an iteration of the segment loop
EndSegment ==
    /\ pc = "xor"
    /\ j >= seg_data_len
    /\ offset' = SkipSegmentData(offset, seg_data_len)
    /\ total_data_bytes' = AddDataBytes(total_data_bytes, seg_data_len)
    /\ i' = i + 1
    /\ pc' = "loop"
    /\ UNCHANGED posVars
    /\ UNCHANGED <<checksum, segment_count, j, seg_load_addr, seg_data_len,
                   segments, reads, folded, expected_checksum, found>>

\* lines 90-92: the loop is over
ReportChecksum ==
    /\ pc = "loop"
    /\ i >= segment_count[1]
    /\ expected_checksum' = Some(checksum)
    /\ pc' = "search"
    /\ UNCHANGED posVars
    /\ UNCHANGED <<checksum, segment_count, offset, total_data_bytes, i, j,
                   seg_load_addr, seg_data_len, segments, reads, folded, found>>

\* lines 94-99
SearchChecksum ==
    /\ pc = "search"
    /\ reads' = reads \cup {<<"modified", x>> : x \in 0..(Len(modified) - 1)}
    /\ found' = {x \in 0..(Len(modified) - 1) :
                    /\ GetItem(modified, x) = checksum
                    /\ x >= Len(modified) - NEAR_END}
    /\ pc' = "returned"
    /\ UNCHANGED posVars
    /\ UNCHANGED <<checksum, segment_count, offset, total_data_bytes, i, j,
                   seg_load_addr, seg_data_len, segments, folded, expected_checksum>>

Next ==
    \/ CheckImageData
    \/ DeriveDataBeforeChecksum
    \/ AddChecksumByte
    \/ AppendSha256
    \/ ReportPositions
    \/ CheckMagic
    \/ ReadSegmentCount
    \/ ReadSegmentHeader
    \/ XorDataByte
    \/ EndSegment
    \/ ReportChecksum
    \/ SearchChecksum

Spec == Init /\ [][Next]_vars

Terminal == {"returned", "bad_magic", "IndexError", "UnboundLocalError"}

TypeOK ==
    /\ pc \in {"image_data", "data_before_checksum", "add_checksum", "append_sha",
               "positions", "magic", "segment_count", "loop", "xor", "search"}
              \cup Terminal
    /\ checksum \in 0..255
    /\ expected_checksum = WalkChecksum(modified) \/ expected_checksum = None

----------------------------------------------------------------------------
(* Vocabulary of the properties *)

\* the image the modified file was cut from
FullImage == BuildImage(image.magic, image.segs, image.pad)

\* offset just past the last segment record of the image
SegmentsEnd == HEADER_SIZE + Len(SegmentRecords(image.segs))

\* the modified file is the whole image
Uncut == modified = FullImage

\* bit b of n
Bit(n, b) == (n \div (2 ^ b)) % 2

\* the byte whose bit b is the parity of bit b over seed and bytes
RECURSIVE ParityFrom(_, _, _)
ParityFrom(seed, bytes, b) ==
    IF b > 7 THEN 0
    ELSE (2 ^ b) * ((Bit(seed, b)
                     + Cardinality({y \in 1..Len(bytes) : Bit(bytes[y], b) = 1})) % 2)
         + ParityFrom(seed, bytes, b + 1)

ParityByte(seed, bytes) == ParityFrom(seed, bytes, 0)

\* offsets of the payload bytes of the image, in file order
RECURSIVE PayloadOffsets(_, _)
PayloadOffsets(segs, at) ==
    IF segs = <<>> THEN <<>>
    ELSE [y \in 1..Len(Head(segs).data) |-> at + 8 + y - 1]
         \o PayloadOffsets(Tail(segs), at + 8 + Len(Head(segs).data))

\* sum of the data_len of the first n decoded descriptors
RECURSIVE SumLen(_)
SumLen(n) == IF n = 0 THEN 0 ELSE segments[n].data_len + SumLen(n - 1)

\* the little-endian value of the 4 bytes at offset at of the modified file
Little4(at) ==
    modified[at + 1] + 256 * modified[at + 2] + 65536 * modified[at + 3]
    + 16777216 * modified[at + 4]

Perms(n) == {f \in [1..n -> 1..n] : \A a, b \in 1..n : f[a] = f[b] => a = b}
Permuted(segs, f) == [x \in 1..Len(segs) |-> segs[f[x]]]

PastPositionReport ==
    pc \in {"magic", "segment_count", "loop", "xor", "search", "returned", "bad_magic"}

----------------------------------------------------------------------------
(* C1: when the modified file starts with 0xE9 and holds all its segment   *)
(* records, the checksum line 91 reports is 0xEF XOR-ed with the payload   *)
(* bytes of the segments and nothing else: the folded indexes are exactly  *)
(* the payload offsets, the value is a byte, and it is 0xEF when the image *)
(* has no segment.                                                         *)
C1_ChecksumIsSeedXorPayload ==
    (/\ expected_checksum # None
     /\ GetItem(modified, 0) = 233
     /\ Len(modified) >= SegmentsEnd)
    => /\ expected_checksum[1] = ParityByte(239, AllPayload(image.segs))
       /\ expected_checksum[1] \in 0..255
       /\ folded = PayloadOffsets(image.segs, 24)
       /\ (image.segs = <<>> => expected_checksum[1] = 239)

C1_Witness ==
    /\ expected_checksum = Some(19)
    /\ Len(modified) >= SegmentsEnd
    /\ Len(image.segs) = 2
    /\ image.segs[1].data = <<1, 2>>
    /\ image.segs[2].data = <<255>>
    /\ folded = <<32, 33, 42>>

C1_WitnessSeed ==
    /\ expected_checksum = Some(239)
    /\ image.segs = <<>>

(* C2: a modified file whose first byte is not 0xE9 ends in the bad-magic   *)
(* return of line 66: segment_count is never read, no descriptor is        *)
(* decoded, no byte is folded, no expected checksum is reported.           *)
C2_BadMagicRejected ==
    (Len(modified) >= 1 /\ GetItem(modified, 0) # 233)
    => /\ segment_count = None
       /\ segments = <<>>
       /\ folded = <<>>
       /\ expected_checksum = None
       /\ (pc \in Terminal => pc = "bad_magic")

(* C3: a segment whose header or payload would go past the end of the      *)
(* modified file makes the walk fail at that segment: its header is never  *)
(* decoded from fewer than 8 bytes, no later segment is decoded and no     *)
(* expected checksum is reported.                                          *)
C3_TruncatedSegmentFails ==
    \A x \in 1..Len(segments) :
       /\ segments[x].at + 8 <= Len(modified)
       /\ (segments[x].at + 8 + segments[x].data_len > Len(modified)
           => /\ Len(segments) = x
              /\ expected_checksum = None
              /\ (pc \in Terminal => pc = "IndexError"))

(* C4: the first k bytes of a well-formed image, k < trailer_start, never   *)
(* get an expected checksum reported and never run to the normal return.   *)
C4_CutBeforeTrailerFails ==
    (image.magic = 233 /\ Len(modified) < Len(FullImage) - 32)
    => /\ expected_checksum = None
       /\ pc # "returned"

(* C5: once the position report has run, the calculated checksum position  *)
(* (dataBeforeChecksum_end) is len(modified) - 33.                         *)
C5_ChecksumPositionOfModified ==
    PastPositionReport => dataBeforeChecksum_end = Some(Len(modified) - 33)

(* C6: with an original or a modified file shorter than 32 bytes no        *)
(* checksum position is derived, no byte is read at len(modified) - 33 and *)
(* no expected checksum is reported.                                       *)
C6_ShortBufferRejected ==
    (Len(original) < 32 \/ Len(modified) < 32)
    => /\ <<"modified", Len(modified) - 33>> \notin reads
       /\ expected_checksum = None
       /\ ~PastPositionReport

(* C7: the reported checksum does not depend on the order of the segment   *)
(* records: the walk over the image with the same header and the records   *)
(* laid out in any other order reports the same checksum.                  *)
C7_OrderIndependent ==
    (expected_checksum # None /\ Uncut)
    => \A f \in Perms(Len(image.segs)) :
          WalkChecksum(BuildImage(image.magic, Permuted(image.segs, f), image.pad))
          = expected_checksum

C7_Witness ==
    /\ expected_checksum # None
    /\ Uncut
    /\ Len(image.segs) = 2
    /\ image.segs[1].data # image.segs[2].data
    /\ Len(image.segs[1].data) = 0
    /\ Len(image.segs[2].data) = 2

(* C8: the simulated rebuild keeps the length of the original: once line   *)
(* 45 has printed, the final length is len(original), the checksum is at   *)
(* len(original) - 33, the 32 digest bytes start at trailer_start =        *)
(* len(original) - 32, and the checksum byte was added before them.        *)
C8_RebuildKeepsLength ==
    /\ final_length # None
       => /\ Len(original) >= 33
          /\ final_length[1] = Len(original)
          /\ rebuilt_length # None
          /\ rebuilt_length[1] = Len(original) - 32
          /\ final_length[1] - rebuilt_length[1] = 32
          /\ dataBeforeChecksum_end[1] = Len(original) - 33
          /\ dataBeforeChecksum_end[1] = rebuilt_length[1] - 1
    /\ rebuilt_length # None
       => /\ rebuilt_length[1] = Len(original) - 32
          /\ dataBeforeChecksum_end[1] = Len(original) - 33

C8_Witness ==
    /\ final_length # None
    /\ Len(original) > 33
    /\ Len(original) # Len(modified)

C10_ReadsInRange ==
    \A r \in reads :
       /\ r[2] >= 0
       /\ r[2] < (IF r[1] = "original" THEN Len(original) ELSE Len(modified))

====
